---- MODULE Spec2Model ----
(***************************************************************************)
(* Send pipeline of the bulk email campaign sender:                        *)
(*   BatchProcessor.createBatches        (backend/services/batchProcessor) *)
(*   EmailService.sendEmail              (backend/services/emailService)   *)
(*   send-batch / send-email processors  (backend/services/queueService)   *)
(*   BatchProcessor.processBatchSynchronously, RetryService                *)
(* Specifications sharing the module: PlanSpec (createBatches on its own), *)
(* RouterSpec (sendEmail on its own), Spec and FairSpec (one campaign send *)
(* through the queue and the synchronous fallback), AttemptsSpec (the same *)
(* with every JOB_ATTEMPTS_EMAIL), PublishSpec (the same with every emit   *)
(* throwing), FaultSpec (the same with store calls rejecting during the    *)
(* fallback or in the send-batch processor), RateSpec (the queue's limiter *)
(* next to the fallback's direct sends), ScheduleSpec (scheduleRetries on  *)
(* its own), RetrySpec (the retry coordinator on a batch the fallback has  *)
(* completed), SyncPoolSpec (a send with every emailQueue.add rejecting),  *)
(* RequestSpec (concurrent POST /:id/send requests) and AnalyticsSpec (the *)
(* pipeline with Analytics.create rejecting).                              *)
(***************************************************************************)
EXTENDS Integers, Sequences, FiniteSets, TLC

\* ------------------------------------------------------------------ bounds
\* PlanSpec: contacts matched by the filters, and MAX_EMAILS_PER_BATCH.
MaxPlanContacts == 10
MaxPlanBatchSize == 6
\* RouterSpec: largest maxRetries argument passed to sendEmail.
MaxRounds == 3

\* Spec: contacts matched by the campaign's filters (and largest MAX_EMAILS_PER_BATCH).
MaxContacts == 2
\* AttemptsSpec: largest JOB_ATTEMPTS_EMAIL (Bull attempts of a send-email job).
MaxJobAttempts == 2
\* RateSpec: largest limiter max, and send tasks waiting on either path.
MaxLimiterMax == 3
MaxLimiterTasks == 4
\* ScheduleSpec: recipients of the batch scheduleRetries looks at.
MaxScheduleContacts == 3
\* RetrySpec: recipients of the batch under retry, retry-failed-emails jobs run on it.
MaxRetryContacts == 2
MaxRetryJobs == 4
\* SyncPoolSpec: contacts matched (and largest MAX_EMAILS_PER_BATCH).
MaxSyncContacts == 5
\* RequestSpec: POST /:id/send requests in flight for the campaign.
MaxRequests == 3

VARIABLES
  plan,      \* createBatches: inputs, loop index, batches pushed, Job documents created
  router,    \* sendEmail: providers, maxRetries, loop position, calls made, result
  limiter,   \* Bull limiter of email-queue: jobs taken and sends made in the window
  requests,  \* concurrent POST /:id/send requests: position, status read, batches made
  env,       \* deployment: contacts matched, MAX_EMAILS_PER_BATCH, PROGRESS_BATCHING
  campaign,  \* Campaign document: status and stats
  jobs,      \* Job documents, by jobId (creation order)
  route,     \* POST /:id/send: position in the handler and in processBatches' loop
  sync,      \* processBatchSynchronously: job, position, sends of the current slice
  hd,        \* send-batch processor, per jobId: position and the progress it read
  tk,        \* send-email processor, per contact: position and the job it read
  progressCache, \* queueService progressCache, per jobId
  retry,     \* retryFailedEmails: job, entries selected, entries still to re-send
  outcome,   \* history: result of the latest first-pass sendEmail for each contact
  hist       \* history: per jobId, completion transitions and campaign stat roll-ups

pipeVars == <<env, campaign, jobs, route, sync, hd, tk, progressCache, retry, outcome, hist>>
vars == <<plan, router, limiter, requests, pipeVars>>

\* ------------------------------------------------------- shared helpers
\* Array.prototype.slice(from, to): 0-based, `to` exclusive, clamped to the length.
Slice(s, from, to) ==
  LET hi == IF to > Len(s) THEN Len(s) ELSE to
  IN  IF from >= hi THEN << >> ELSE SubSeq(s, from + 1, hi)

\* Math.ceil(n / b) for n >= 0, b >= 1.
MathCeilDiv(n, b) == IF n % b = 0 THEN n \div b ELSE (n \div b) + 1

RECURSIVE SumSeq(_)
SumSeq(s) == IF s = << >> THEN 0 ELSE Head(s) + SumSeq(Tail(s))

\* ==================================================== BatchProcessor.createBatches
\* One iteration of the for loop: slice the contacts, number the batch,
\* Job.create the document and push the batch summary.
CreateBatchesIter_OffByOne(st, contacts, batchSize) ==
  LET batchContacts == Slice(contacts, st.i, st.i + batchSize + 1)
      batchNumber == (st.i \div batchSize) + 1
      job == [batchNumber |-> batchNumber, contacts |-> batchContacts,
              status |-> "pending", errorLog |-> << >>,
              total |-> Len(batchContacts), sent |-> 0, failed |-> 0]
  IN  [i |-> st.i + batchSize,
       jobs |-> Append(st.jobs, job),
       batches |-> Append(st.batches,
                     [jobId |-> Len(st.jobs) + 1, batchNumber |-> batchNumber,
                      contacts |-> batchContacts, total |-> Len(batchContacts)])]

CreateBatchesIter_Unordered(st, contacts, batchSize) ==
  LET slice == Slice(contacts, st.i, st.i + batchSize)
      batchContacts == [k \in 1..Len(slice) |-> slice[Len(slice) + 1 - k]]
      batchNumber == (st.i \div batchSize) + 1
      job == [batchNumber |-> batchNumber, contacts |-> batchContacts,
              status |-> "pending", errorLog |-> << >>,
              total |-> Len(batchContacts), sent |-> 0, failed |-> 0]
  IN  [i |-> st.i + batchSize,
       jobs |-> Append(st.jobs, job),
       batches |-> Append(st.batches,
                     [jobId |-> Len(st.jobs) + 1, batchNumber |-> batchNumber,
                      contacts |-> batchContacts, total |-> Len(batchContacts)])]

CreateBatchesIter(st, contacts, batchSize) ==
  LET batchContacts == Slice(contacts, st.i, st.i + batchSize)
      batchNumber == (st.i \div batchSize) + 1
      job == [batchNumber |-> batchNumber, contacts |-> batchContacts,
              status |-> "pending", errorLog |-> << >>,
              total |-> Len(batchContacts), sent |-> 0, failed |-> 0]
  IN  [i |-> st.i + batchSize,
       jobs |-> Append(st.jobs, job),
       batches |-> Append(st.batches,
                     [jobId |-> Len(st.jobs) + 1, batchNumber |-> batchNumber,
                      contacts |-> batchContacts, total |-> Len(batchContacts)])]

RECURSIVE CreateBatchesLoop(_, _, _)
CreateBatchesLoop(st, contacts, batchSize) ==
  IF st.i < Len(contacts)
  THEN CreateBatchesLoop(CreateBatchesIter(st, contacts, batchSize), contacts, batchSize)
  ELSE st

\* The whole call for a non-empty contact list: what it returns and what it persisted.
CreateBatches(contacts, batchSize) ==
  LET st == CreateBatchesLoop([i |-> 0, jobs |-> << >>, batches |-> << >>],
                              contacts, batchSize)
  IN  [totalContacts |-> Len(contacts),
       totalBatches |-> MathCeilDiv(Len(contacts), batchSize),
       batches |-> st.batches,
       jobs |-> st.jobs]

PlanOff == [pc |-> "off"]

PlanInit ==
  \E n \in 0..MaxPlanContacts, b \in 1..MaxPlanBatchSize :
    plan = [pc |-> "query", contacts |-> [c \in 1..n |-> c], batchSize |-> b,
            i |-> 0, jobs |-> << >>, batches |-> << >>,
            totalContacts |-> 0, totalBatches |-> 0]

\* Contact.find(...); totalContacts === 0 throws before anything is created.
PlanThrow ==
  /\ plan.pc = "query"
  /\ Len(plan.contacts) = 0
  /\ plan' = [plan EXCEPT !.pc = "thrown"]
  /\ UNCHANGED <<router, limiter, requests, pipeVars>>

PlanQuery ==
  /\ plan.pc = "query"
  /\ Len(plan.contacts) # 0
  /\ plan' = [plan EXCEPT !.pc = "loop",
                          !.totalContacts = Len(plan.contacts),
                          !.totalBatches = MathCeilDiv(Len(plan.contacts), plan.batchSize)]
  /\ UNCHANGED <<router, limiter, requests, pipeVars>>

PlanIter ==
  /\ plan.pc = "loop"
  /\ plan.i < plan.totalContacts
  /\ LET st == CreateBatchesIter([i |-> plan.i, jobs |-> plan.jobs, batches |-> plan.batches],
                                 plan.contacts, plan.batchSize)
     IN  plan' = [plan EXCEPT !.i = st.i, !.jobs = st.jobs, !.batches = st.batches]
  /\ UNCHANGED <<router, limiter, requests, pipeVars>>

PlanReturn ==
  /\ plan.pc = "loop"
  /\ ~(plan.i < plan.totalContacts)
  /\ plan' = [plan EXCEPT !.pc = "returned"]
  /\ UNCHANGED <<router, limiter, requests, pipeVars>>

PlanNext == PlanThrow \/ PlanQuery \/ PlanIter \/ PlanReturn

\* ==================================================== EmailService.sendEmail
ProviderNames == {"mailgun", "mailgun-backup", "sendgrid", "smtp"}

\* initializeProviders: the priority each configured provider is pushed with.
ProviderPriority(name) ==
  CASE name = "mailgun" -> 1
    [] name = "mailgun-backup" -> 2
    [] name = "sendgrid" -> 3
    [] name = "smtp" -> 4

\* providers.sort((a, b) => a.priority - b.priority) over the configured set.
RECURSIVE SortByPriority(_)
SortByPriority(S) ==
  IF S = {} THEN << >>
  ELSE LET first == CHOOSE x \in S : \A y \in S : ProviderPriority(x) <= ProviderPriority(y)
       IN  <<first>> \o SortByPriority(S \ {first})

RouterOff == [pc |-> "off"]

\* up[a][p]: whether provider p's transport accepts the message when called in
\* round a. The sendgrid branch always throws ('SendGrid not yet implemented').
RouterInit ==
  \E configured \in SUBSET ProviderNames, r \in 1..MaxRounds :
    \E up \in [0..(r - 1) -> [configured -> BOOLEAN]] :
      /\ \A a \in 0..(r - 1) : "sendgrid" \in configured => ~up[a]["sendgrid"]
      /\ router = [pc |-> "loop", providers |-> SortByPriority(configured),
                   maxRetries |-> r, up |-> up,
                   attempt |-> 0, idx |-> 1,
                   lastError |-> "none", calls |-> << >>, sleeps |-> << >>,
                   result |-> [success |-> FALSE, provider |-> "none",
                               error |-> "none", attempts |-> 0]]

ErrorOf(name, attempt) == <<name, attempt>>

\* Body of the inner for loop for one provider: the transport call, then either
\* the early return or the catch block.
RouterTry_NoEarlyReturn ==
  /\ router.pc = "loop"
  /\ router.attempt < router.maxRetries
  /\ router.idx <= Len(router.providers)
  /\ LET name == router.providers[router.idx]
         call == <<router.attempt, name>>
     IN  IF router.up[router.attempt][name]
         THEN router' = [router EXCEPT
                !.calls = Append(@, call),
                !.idx = @ + 1,
                !.result = [success |-> TRUE, provider |-> name,
                            error |-> "none", attempts |-> 0]]
         ELSE router' = [router EXCEPT
                !.calls = Append(@, call),
                !.lastError = ErrorOf(name, router.attempt),
                !.idx = @ + 1]
  /\ UNCHANGED <<plan, limiter, requests, pipeVars>>

RouterTry ==
  /\ router.pc = "loop"
  /\ router.attempt < router.maxRetries
  /\ router.idx <= Len(router.providers)
  /\ LET name == router.providers[router.idx]
         call == <<router.attempt, name>>
     IN  IF router.up[router.attempt][name]
         THEN router' = [router EXCEPT
                !.pc = "returned",
                !.calls = Append(@, call),
                !.result = [success |-> TRUE, provider |-> name,
                            error |-> "none", attempts |-> 0]]
         ELSE router' = [router EXCEPT
                !.calls = Append(@, call),
                !.lastError = ErrorOf(name, router.attempt),
                !.idx = @ + 1]
  /\ UNCHANGED <<plan, limiter, requests, pipeVars>>

\* End of a round in which no provider returned: sleep 1000 * (attempt + 1) ms
\* unless it was the last round, then attempt++ and the providers from the top.
RouterRoundEnd_NoRewind ==
  /\ router.pc = "loop"
  /\ router.attempt < router.maxRetries
  /\ router.idx > Len(router.providers)
  /\ router' = [router EXCEPT
       !.sleeps = IF router.attempt < router.maxRetries - 1
                  THEN Append(@, 1000 * (router.attempt + 1)) ELSE @,
       !.attempt = @ + 1]
  /\ UNCHANGED <<plan, limiter, requests, pipeVars>>

RouterRoundEnd ==
  /\ router.pc = "loop"
  /\ router.attempt < router.maxRetries
  /\ router.idx > Len(router.providers)
  /\ router' = [router EXCEPT
       !.sleeps = IF router.attempt < router.maxRetries - 1
                  THEN Append(@, 1000 * (router.attempt + 1)) ELSE @,
       !.attempt = @ + 1,
       !.idx = 1]
  /\ UNCHANGED <<plan, limiter, requests, pipeVars>>

\* All rounds exhausted: the failure result.
RouterExhausted ==
  /\ router.pc = "loop"
  /\ ~(router.attempt < router.maxRetries)
  /\ router' = [router EXCEPT
       !.pc = "returned",
       !.result = [success |-> FALSE, provider |-> "none",
                   error |-> IF router.lastError = "none" THEN "Unknown error"
                             ELSE router.lastError,
                   attempts |-> router.maxRetries]]
  /\ UNCHANGED <<plan, limiter, requests, pipeVars>>

RouterNext == RouterTry \/ RouterRoundEnd \/ RouterExhausted

\* ==================================================== one campaign send (Spec)
\* Tunables read from the environment by queueService.js and batchProcessor.js.
\* EMAIL_CONCURRENCY and BATCH_CONCURRENCY are the source defaults; the model runs
\* the deployment PROGRESS_BATCH_SIZE=2, SYNC_SEND_CONCURRENCY=2 (defaults 10), so
\* that a flush inside incProgress and a second slice of the synchronous loop
\* happen with a handful of recipients.
EMAIL_CONCURRENCY == 10
BATCH_CONCURRENCY == 2
PROGRESS_BATCH_SIZE == 2
SYNC_SEND_CONCURRENCY == 2
\* retryService.js: error.retryCount < 3
RETRY_CEILING == 3
\* Processes that run the retry-failed-emails processor, one job at a time
\* each: DEPLOYMENT.md starts the backend with PM2 in cluster mode, instances: 2.
RETRY_WORKERS == 2
\* retryService.js scheduleRetries: Math.pow(2, maxRetryCount) * 60000.
RETRY_BASE_DELAY == 60000

ToSet(s) == {s[k] : k \in DOMAIN s}

\* result.error of the n-th sendEmail for a recipient (0: the first pass).
ErrorMessage(email, n) == <<"error", email, n>>

\* Job.updateOne({_id}, {$inc: {progress.sent, progress.failed}, $set: {progress.total} if total}).
JobInc(js, jobId, sent, failed, total) ==
  [js EXCEPT ![jobId].sent = @ + sent,
             ![jobId].failed = @ + failed,
             ![jobId].total = IF total # 0 THEN total ELSE @]

\* Job.updateOne({_id}, {status}).
JobSetStatus(js, jobId, status) == [js EXCEPT ![jobId].status = status]

\* Job.updateOne({_id, status: {$ne: 'completed'}}, {status: 'completed'}).
JobCompleteIfNot(js, jobId) ==
  IF js[jobId].status # "completed" THEN [js EXCEPT ![jobId].status = "completed"] ELSE js

\* Job.countDocuments({campaignId, status: {$in: ['pending', 'processing']}}).
RemainingJobs_ProcessingOnly(js) ==
  Cardinality({b \in DOMAIN js : js[b].status \in {"processing"}})

RemainingJobs(js) ==
  Cardinality({b \in DOMAIN js : js[b].status \in {"pending", "processing"}})

\* Campaign.updateOne({_id}, {$inc: {stats.sent, stats.failed}, $set: {stats.total}}).
CampaignRoll(c, sent, failed, total) ==
  [c EXCEPT !.sent = @ + sent, !.failed = @ + failed, !.total = total]

\* Campaign.updateOne({_id}, {$set: {status: 'completed'}}).
\* Each of these writes is followed by one emit of 'campaign-completed':
\* announced counts them (history).
CampaignComplete(c) == [c EXCEPT !.status = "completed", !.announced = @ + 1]

\* History bookkeeping for the writes above.
HistWrite(h, js, jobId, status) ==
  IF status = "completed" /\ js[jobId].status # "completed"
  THEN [h EXCEPT ![jobId].transitions = @ + 1,
                 ![jobId].accounted = @ /\ (js[jobId].sent + js[jobId].failed = js[jobId].total)]
  ELSE h

HistRoll(h, jobId) == [h EXCEPT ![jobId].rolls = @ + 1]

\* io.to(room).emit(event, data) inside try { } catch { }: whether the emit
\* returns or throws, control reaches the statement after the block. With the
\* socket server down every emit throws.
Throws(emits) == {emits /\ env.io = "down"}

Publish_Uncaught(threw, cont) == IF threw THEN "aborted" ELSE cont

Publish(threw, cont) == cont

HistPublish(h, jobId, threw) == [h EXCEPT ![jobId].publishFailed = @ \/ threw]

SyncIdle == [job |-> 0, pc |-> "idle", i |-> 0, pending |-> {}]
\* run: the retryFailedEmails call of each worker process (job 0: none);
\* queued: the retry-failed-emails jobs waiting, by jobId; passes: how many were
\* scheduled so far, limit: how many may be. attempts and lastScan are history:
\* re-sends per email; job and selection of the latest scheduleRetries scan
\* (job 0 once an entry of that job was re-sent).
NoScan == [job |-> 0, sel |-> {}, delay |-> 0]
NoPass == [job |-> 0, entries |-> << >>, pending |-> {}]
RetryIdle == [run |-> [w \in 1..RETRY_WORKERS |-> NoPass],
              passes |-> 0, queued |-> << >>, limit |-> 0,
              attempts |-> << >>, lastScan |-> NoScan]
\* made: times a worker has taken the job (Bull attemptsMade), ok: result.success
\* of the latest sendEmail.
TaskNone == [pc |-> "none", jobId |-> 0, total |-> 0, snapSent |-> 0, snapFailed |-> 0,
             made |-> 0, ok |-> FALSE, thrown |-> FALSE]
HandlerNone == [pc |-> "none", contacts |-> << >>, snapSent |-> 0, snapFailed |-> 0]
CacheNone == [has |-> FALSE, sent |-> 0, failed |-> 0, total |-> 0]

PipeOff ==
  /\ env = [n |-> 0, batchSize |-> 1, batching |-> FALSE, attempts |-> 1, io |-> "ok"]
  /\ campaign = [status |-> "draft", sent |-> 0, failed |-> 0, total |-> 0, announced |-> 0]
  /\ jobs = << >>
  /\ route = [pc |-> "off", next |-> 1, batches |-> << >>, results |-> << >>]
  /\ sync = SyncIdle
  /\ hd = << >>
  /\ tk = << >>
  /\ progressCache = << >>
  /\ retry = RetryIdle
  /\ outcome = << >>
  /\ hist = << >>

PipeInit ==
  /\ env \in [n : 0..MaxContacts, batchSize : 1..MaxContacts, batching : BOOLEAN,
              attempts : 1..MaxJobAttempts, io : {"ok", "down"}]
  /\ campaign = [status |-> "draft", sent |-> 0, failed |-> 0, total |-> 0, announced |-> 0]
  /\ jobs = << >>
  /\ route = [pc |-> "idle", next |-> 1, batches |-> << >>, results |-> << >>]
  /\ sync = SyncIdle
  /\ hd = << >>
  /\ tk = [c \in 1..env.n |-> TaskNone]
  /\ progressCache = << >>
  /\ retry = RetryIdle
  /\ outcome = [c \in 1..env.n |-> "none"]
  /\ hist = << >>

\* ---------------------------------------------------- POST /:id/send
\* campaign.status = 'sending'; createBatches. With no contact createBatches
\* throws and the catch block resets the campaign to 'draft'.
RouteSend_LazyPersist ==
  /\ route.pc = "idle"
  /\ campaign.status # "sending"
  /\ IF env.n = 0
     THEN /\ campaign' = [campaign EXCEPT !.status = "draft"]
          /\ route' = [route EXCEPT !.pc = "error"]
          /\ UNCHANGED <<jobs, hd, progressCache, hist>>
     ELSE LET made == CreateBatches([c \in 1..env.n |-> c], env.batchSize)
              ids == 1..Len(made.jobs)
          IN  /\ campaign' = [campaign EXCEPT !.status = "sending"]
              /\ jobs' = SubSeq(made.jobs, 1, 1)
              /\ route' = [route EXCEPT !.pc = "submit", !.batches = made.batches]
              /\ hd' = [b \in ids |-> HandlerNone]
              /\ progressCache' = [b \in ids |-> CacheNone]
              /\ hist' = [b \in ids |-> [transitions |-> 0, rolls |-> 0, retried |-> FALSE,
                                          publishFailed |-> FALSE, accounted |-> TRUE]]
  /\ UNCHANGED <<plan, router, limiter, requests, env, sync, tk, retry, outcome>>

RouteSend_EmptyBatch ==
  /\ route.pc = "idle"
  /\ campaign.status # "sending"
  /\ LET contacts == [c \in 1..env.n |-> c]
         made == IF env.n = 0
                 THEN CreateBatchesIter([i |-> 0, jobs |-> << >>, batches |-> << >>],
                                        contacts, env.batchSize)
                 ELSE CreateBatches(contacts, env.batchSize)
         ids == 1..Len(made.jobs)
     IN  /\ campaign' = [campaign EXCEPT !.status = "sending"]
         /\ jobs' = made.jobs
         /\ route' = [route EXCEPT !.pc = "submit", !.batches = made.batches]
         /\ hd' = [b \in ids |-> HandlerNone]
         /\ progressCache' = [b \in ids |-> CacheNone]
         /\ hist' = [b \in ids |-> [transitions |-> 0, rolls |-> 0, retried |-> FALSE, publishFailed |-> FALSE,
                                     accounted |-> TRUE]]
  /\ UNCHANGED <<plan, router, limiter, requests, env, sync, tk, retry, outcome>>

RouteSend ==
  /\ route.pc = "idle"
  /\ campaign.status # "sending"
  /\ IF env.n = 0
     THEN /\ campaign' = [campaign EXCEPT !.status = "draft"]
          /\ route' = [route EXCEPT !.pc = "error"]
          /\ UNCHANGED <<jobs, hd, progressCache, hist>>
     ELSE LET made == CreateBatches([c \in 1..env.n |-> c], env.batchSize)
              ids == 1..Len(made.jobs)
          IN  /\ campaign' = [campaign EXCEPT !.status = "sending"]
              /\ jobs' = made.jobs
              /\ route' = [route EXCEPT !.pc = "submit", !.batches = made.batches]
              /\ hd' = [b \in ids |-> HandlerNone]
              /\ progressCache' = [b \in ids |-> CacheNone]
              /\ hist' = [b \in ids |-> [transitions |-> 0, rolls |-> 0, retried |-> FALSE, publishFailed |-> FALSE,
                                          accounted |-> TRUE]]
  /\ UNCHANGED <<plan, router, limiter, requests, env, sync, tk, retry, outcome>>

\* processBatches pushes the entry of the batch and moves to the next batch; after
\* the last one it returns and the route responds.
RoutePush(r, jobId, queued) ==
  [r EXCEPT !.pc = IF r.next + 1 > Len(r.batches) THEN "responded" ELSE "submit",
            !.next = @ + 1,
            !.results = Append(@, [jobId |-> jobId, queued |-> queued])]

\* processBatches: emailQueue.add('send-batch', ...) resolves.
RouteSubmitQueued ==
  /\ route.pc = "submit"
  /\ route.next <= Len(route.batches)
  /\ LET batch == route.batches[route.next]
     IN  /\ hd' = [hd EXCEPT ![batch.jobId] =
                     [HandlerNone EXCEPT !.pc = "queued", !.contacts = batch.contacts]]
         /\ route' = RoutePush(route, batch.jobId, TRUE)
  /\ UNCHANGED <<plan, router, limiter, requests, env, campaign, jobs, sync, tk, progressCache,
                 retry, outcome, hist>>

\* The first slice of contacts.slice(i, i + SYNC_SEND_CONCURRENCY) as a set.
SyncSlice_WholeBatch(contacts, i) == ToSet(Slice(contacts, i, Len(contacts)))

SyncSlice(contacts, i) == ToSet(Slice(contacts, i, i + SYNC_SEND_CONCURRENCY))

\* processBatches: emailQueue.add rejects; the catch block calls
\* processBatchSynchronously, which marks the job 'processing' and starts the
\* first slice of sends.
RouteSubmitFallback_Dropped ==
  /\ route.pc = "submit"
  /\ route.next <= Len(route.batches)
  /\ LET batch == route.batches[route.next]
     IN  route' = RoutePush(route, batch.jobId, FALSE)
  /\ UNCHANGED <<plan, router, limiter, requests, env, campaign, jobs, sync, hd, tk, progressCache,
                 retry, outcome, hist>>

RouteSubmitFallback_AlsoQueued ==
  /\ route.pc = "submit"
  /\ route.next <= Len(route.batches)
  /\ LET batch == route.batches[route.next]
     IN  /\ jobs' = JobSetStatus(jobs, batch.jobId, "processing")
         /\ hist' = HistWrite(hist, jobs, batch.jobId, "processing")
         /\ hd' = [hd EXCEPT ![batch.jobId] =
                     [HandlerNone EXCEPT !.pc = "queued", !.contacts = batch.contacts]]
         /\ sync' = [SyncIdle EXCEPT !.job = batch.jobId, !.pc = "send",
                                     !.pending = SyncSlice(batch.contacts, 0)]
         /\ route' = [route EXCEPT !.pc = "sync"]
  /\ UNCHANGED <<plan, router, limiter, requests, env, campaign, tk, progressCache, retry, outcome>>

RouteSubmitFallback ==
  /\ route.pc = "submit"
  /\ route.next <= Len(route.batches)
  /\ LET batch == route.batches[route.next]
     IN  /\ jobs' = JobSetStatus(jobs, batch.jobId, "processing")
         /\ hist' = HistWrite(hist, jobs, batch.jobId, "processing")
         /\ sync' = [SyncIdle EXCEPT !.job = batch.jobId, !.pc = "send",
                                     !.pending = SyncSlice(batch.contacts, 0)]
         /\ route' = [route EXCEPT !.pc = "sync"]
  /\ UNCHANGED <<plan, router, limiter, requests, env, campaign, hd, tk, progressCache, retry, outcome>>

\* ---------------------------------------------------- processBatchSynchronously
\* One contact of the current slice: sendEmail returns and the job is updated
\* ($inc sent and $set total, or $inc failed and $push errorLog). When the slice
\* is done Promise.all resolves and the next slice starts, or the loop ends.
SyncSend(c) ==
  /\ sync.pc = "send"
  /\ c \in sync.pending
  /\ \E ok \in BOOLEAN :
       LET jobId == sync.job
           contacts == route.batches[route.next].contacts
           totalContacts == Len(contacts)
           left == sync.pending \ {c}
           i2 == sync.i + SYNC_SEND_CONCURRENCY
       IN  /\ outcome' = [outcome EXCEPT ![c] = IF ok THEN "sent" ELSE "failed"]
           /\ jobs' = IF ok
                THEN JobInc(jobs, jobId, 1, 0, totalContacts)
                ELSE [JobInc(jobs, jobId, 0, 1, 0) EXCEPT
                        ![jobId].errorLog =
                           Append(@, [email |-> c, error |-> ErrorMessage(c, 0),
                                      retryCount |-> 0])]
           /\ sync' = IF left # {} THEN [sync EXCEPT !.pending = left]
                      ELSE IF i2 < Len(contacts)
                           THEN [sync EXCEPT !.i = i2, !.pending = SyncSlice(contacts, i2)]
                           ELSE [sync EXCEPT !.i = i2, !.pending = {}, !.pc = "read"]
  /\ UNCHANGED <<plan, router, limiter, requests, env, campaign, route, hd, tk, progressCache, retry, hist>>

\* After the loop: Job.findById, Job.updateOne({_id}, {status: 'completed'}), the
\* campaign stats update with the counters read, and the 'batch-completed' emit.
SyncFinalize ==
  /\ sync.pc = "read"
  /\ jobs' = JobSetStatus(jobs, sync.job, "completed")
  /\ campaign' = CampaignRoll(campaign, jobs[sync.job].sent, jobs[sync.job].failed,
                              Len(route.batches[route.next].contacts))
  /\ \E threw \in Throws(TRUE) :
       /\ hist' = HistPublish(HistRoll(HistWrite(hist, jobs, sync.job, "completed"),
                                       sync.job), sync.job, threw)
       /\ sync' = [sync EXCEPT !.pc = Publish(threw, "count")]
  /\ UNCHANGED <<plan, router, limiter, requests, env, route, hd, tk, progressCache, retry, outcome>>

\* countDocuments: with jobs remaining processBatchSynchronously returns and
\* processBatches pushes its entry.
SyncCount ==
  /\ sync.pc = "count"
  /\ IF RemainingJobs(jobs) = 0
     THEN /\ sync' = [sync EXCEPT !.pc = "campaign"]
          /\ UNCHANGED route
     ELSE /\ sync' = SyncIdle
          /\ route' = RoutePush(route, sync.job, FALSE)
  /\ UNCHANGED <<plan, router, limiter, requests, env, campaign, jobs, hd, tk, progressCache, retry,
                 outcome, hist>>

\* remaining === 0: the campaign is marked completed, 'campaign-completed' is
\* emitted, then the return.
SyncCampaign ==
  /\ sync.pc = "campaign"
  /\ campaign' = CampaignComplete(campaign)
  /\ \E threw \in Throws(TRUE) :
       LET after == Publish(threw, "return")
       IN  /\ hist' = HistPublish(hist, sync.job, threw)
           /\ sync' = IF after = "return" THEN SyncIdle ELSE [sync EXCEPT !.pc = after]
           /\ route' = IF after = "return" THEN RoutePush(route, sync.job, FALSE) ELSE route
  /\ UNCHANGED <<plan, router, limiter, requests, env, jobs, hd, tk, progressCache, retry, outcome>>

\* A store call awaited by processBatchSynchronously rejects: Job.findById (324),
\* Job.countDocuments (360) or the last Campaign.updateOne (365). Nothing in
\* processBatchSynchronously catches it and it is raised inside the catch block
\* of processBatches, so it leaves processBatches before the entry of the batch
\* is pushed and before any later batch is looked at.
SyncThrow ==
  /\ sync.pc \in {"read", "count", "campaign"}
  /\ sync' = [sync EXCEPT !.pc = "thrown"]
  /\ route' = [route EXCEPT !.pc = "thrown"]
  /\ UNCHANGED <<plan, router, limiter, requests, env, campaign, jobs, hd, tk, progressCache, retry,
                 outcome, hist>>

\* emailQueue.add rejects and the first Job.updateOne of processBatchSynchronously
\* (250) rejects as well: the job document is left as createBatches wrote it.
RouteSubmitThrow ==
  /\ route.pc = "submit"
  /\ route.next <= Len(route.batches)
  /\ sync' = [SyncIdle EXCEPT !.job = route.batches[route.next].jobId, !.pc = "thrown"]
  /\ route' = [route EXCEPT !.pc = "thrown"]
  /\ UNCHANGED <<plan, router, limiter, requests, env, campaign, jobs, hd, tk, progressCache, retry,
                 outcome, hist>>

\* The catch block of POST /:id/send: Campaign.updateOne({_id}, {status: 'draft'})
\* and the 500 response.
RouteCatch ==
  /\ route.pc = "thrown"
  /\ campaign' = [campaign EXCEPT !.status = "draft"]
  /\ route' = [route EXCEPT !.pc = "error"]
  /\ UNCHANGED <<plan, router, limiter, requests, env, jobs, sync, hd, tk, progressCache, retry,
                 outcome, hist>>

\* ---------------------------------------------------- emailQueue.process('send-batch')
Running(h) == Cardinality({b \in DOMAIN h : h[b].pc \notin {"none", "queued", "finished"}})

\* A worker takes the send-batch job: Job.findById, status 'processing', then the
\* enqueue loop: one send-email job per contact, each carrying jobId and
\* total = contacts.length.
HandlerStart(b) ==
  /\ hd[b].pc = "queued"
  /\ Running(hd) < BATCH_CONCURRENCY
  /\ jobs' = JobSetStatus(jobs, b, "processing")
  /\ hist' = HistWrite(hist, jobs, b, "processing")
  /\ tk' = [c \in DOMAIN tk |->
              IF c \in ToSet(hd[b].contacts)
              THEN [TaskNone EXCEPT !.pc = "queued", !.jobId = b,
                                    !.total = Len(hd[b].contacts)]
              ELSE tk[c]]
  /\ hd' = [hd EXCEPT ![b].pc = "wait"]
  /\ UNCHANGED <<plan, router, limiter, requests, env, campaign, route, sync, progressCache,
                 retry, outcome>>

\* After the 200 ms wait: Job.findById and the test sent + failed >= totalContacts.
HandlerRead(b) ==
  /\ hd[b].pc = "wait"
  /\ hd' = IF jobs[b].sent + jobs[b].failed >= Len(hd[b].contacts)
           THEN [hd EXCEPT ![b].pc = "complete",
                           ![b].snapSent = jobs[b].sent,
                           ![b].snapFailed = jobs[b].failed]
           ELSE [hd EXCEPT ![b].pc = "finished"]
  /\ UNCHANGED <<plan, router, limiter, requests, env, campaign, jobs, route, sync, tk, progressCache,
                 retry, outcome, hist>>

\* Job.updateOne({_id}, {status: 'completed'}), with no condition on the current
\* status, the campaign stats update with the counters read, and the
\* 'batch-completed' emit.
HandlerComplete(b) ==
  /\ hd[b].pc = "complete"
  /\ jobs' = JobSetStatus(jobs, b, "completed")
  /\ campaign' = CampaignRoll(campaign, hd[b].snapSent, hd[b].snapFailed,
                              Len(hd[b].contacts))
  /\ \E threw \in Throws(TRUE) :
       /\ hist' = HistPublish(HistRoll(HistWrite(hist, jobs, b, "completed"), b), b, threw)
       /\ hd' = [hd EXCEPT ![b] = [@ EXCEPT !.pc = Publish(threw, "count"),
                                            !.snapSent = 0, !.snapFailed = 0]]
  /\ UNCHANGED <<plan, router, limiter, requests, env, route, sync, tk, progressCache, retry, outcome>>

\* countDocuments of the jobs still pending or processing.
HandlerCount(b) ==
  /\ hd[b].pc = "count"
  /\ hd' = [hd EXCEPT ![b].pc = IF RemainingJobs(jobs) = 0 THEN "campaign" ELSE "finished"]
  /\ UNCHANGED <<plan, router, limiter, requests, env, campaign, jobs, route, sync, tk, progressCache,
                 retry, outcome, hist>>

\* remaining === 0: the campaign is marked completed and 'campaign-completed'
\* is emitted.
HandlerCampaign(b) ==
  /\ hd[b].pc = "campaign"
  /\ campaign' = CampaignComplete(campaign)
  /\ \E threw \in Throws(TRUE) :
       /\ hist' = HistPublish(hist, b, threw)
       /\ hd' = [hd EXCEPT ![b].pc = Publish(threw, "finished")]
  /\ UNCHANGED <<plan, router, limiter, requests, env, jobs, route, sync, tk, progressCache,
                 retry, outcome>>

\* A store call awaited by the send-batch processor after its enqueue loop
\* rejects: Job.findById (558), Job.countDocuments (602) or the last
\* Campaign.updateOne (607). The catch block writes status 'failed' on the job,
\* with no condition on its current status, and rethrows; the job has attempts 1.
HandlerThrow(b) ==
  /\ hd[b].pc \in {"wait", "count", "campaign"}
  /\ jobs' = JobSetStatus(jobs, b, "failed")
  /\ hd' = [hd EXCEPT ![b].pc = "finished"]
  /\ UNCHANGED <<plan, router, limiter, requests, env, campaign, route, sync, tk, progressCache,
                 retry, outcome, hist>>

\* ---------------------------------------------------- progressCache
\* flushProgress up to its await: what it reads from the cache decides whether
\* it issues Job.updateOne with the cached increments.
FlushNeeded(cache, jobId) ==
  /\ cache[jobId].has
  /\ ~(cache[jobId].sent = 0 /\ cache[jobId].failed = 0)

\* The Job.updateOne of flushProgress.
FlushWrite(js, cache, jobId) ==
  JobInc(js, jobId, cache[jobId].sent, cache[jobId].failed, cache[jobId].total)

\* flushProgress after its await: progressCache.set(key, {sent: 0, failed: 0, total}).
FlushReset(cache, jobId, total) ==
  [cache EXCEPT ![jobId] = [has |-> TRUE, sent |-> 0, failed |-> 0, total |-> total]]

\* incProgress with PROGRESS_BATCHING: existing || zeros, plus the increment.
CacheAdd(cache, jobId, sent, failed, total) ==
  LET existing == IF cache[jobId].has THEN cache[jobId] ELSE CacheNone
  IN  [cache EXCEPT ![jobId] =
         [has |-> TRUE, sent |-> existing.sent + sent,
          failed |-> existing.failed + failed,
          total |-> IF total # 0 THEN total ELSE existing.total]]

\* ---------------------------------------------------- emailQueue.process('send-email')
Active(t) == Cardinality({c \in DOMAIN t : t[c].pc \notin {"none", "queued", "finished"}})

\* The processor returns (success) or throws new Error(result.error) (failure);
\* Bull puts a job that threw back on the queue while attemptsMade < attempts.
WorkerEnd(t) == IF ~t.ok /\ t.made < env.attempts THEN "queued" ELSE "finished"

\* A worker takes the send-email job: sendEmail(emailData, 1) returns and
\* incProgress runs up to its first await. Without batching that is the $inc on
\* the job; with batching it is the cache update and, at PROGRESS_BATCH_SIZE,
\* the write of flushProgress. On success, once incProgress has returned,
\* 'email-sent' is emitted.
WorkerSend(c) ==
  /\ tk[c].pc = "queued"
  /\ Active(tk) < EMAIL_CONCURRENCY
  /\ \E ok \in BOOLEAN :
       LET jobId == tk[c].jobId
           sent == IF ok THEN 1 ELSE 0
           failed == IF ok THEN 0 ELSE 1
           next == CacheAdd(progressCache, jobId, sent, failed, tk[c].total)
           flushNow == env.batching
                       /\ next[jobId].sent + next[jobId].failed >= PROGRESS_BATCH_SIZE
           emits == ok /\ ~flushNow
           cont == IF flushNow THEN "incflushed"
                   ELSE IF env.batching /\ ok THEN "flush" ELSE "read"
       IN  /\ outcome' = [outcome EXCEPT ![c] = IF ok THEN "sent" ELSE "failed"]
           /\ \E threw \in Throws(emits) :
                /\ hist' = HistPublish(hist, jobId, threw)
                /\ tk' = [tk EXCEPT ![c] = [@ EXCEPT !.pc = IF emits
                                                            THEN Publish(threw, cont)
                                                            ELSE cont,
                                                     !.made = @ + 1, !.ok = ok]]
           /\ IF ~env.batching
              THEN /\ jobs' = JobInc(jobs, jobId, sent, failed, tk[c].total)
                   /\ UNCHANGED progressCache
              ELSE /\ progressCache' = next
                   /\ jobs' = IF flushNow THEN FlushWrite(jobs, next, jobId) ELSE jobs
  /\ UNCHANGED <<plan, router, limiter, requests, env, campaign, route, sync, hd, retry>>

\* Analytics.create rejects (ANALYTICS_ENABLED, the default): the await follows
\* incProgress and comes before the emit, the flush and the completion check,
\* and it is guarded by the processor's outer try only, whose catch rethrows.
\* The job fails; Bull puts it back while attemptsMade < attempts.
WorkerAnalyticsThrow(c) ==
  /\ \/ tk[c].pc = "flush"
     \/ tk[c].pc = "read" /\ (~env.batching \/ ~tk[c].ok)
  /\ tk' = [tk EXCEPT ![c] = [@ EXCEPT !.pc = IF tk[c].made < env.attempts
                                              THEN "queued" ELSE "finished",
                                       !.thrown = TRUE]]
  /\ UNCHANGED <<plan, router, limiter, requests, env, campaign, jobs, route, sync, hd,
                 progressCache, retry, outcome, hist>>

\* flushProgress called by incProgress resumes after its write: the cache is
\* reset, incProgress returns and, on success, 'email-sent' is emitted.
WorkerIncFlushed(c) ==
  /\ tk[c].pc = "incflushed"
  /\ progressCache' = FlushReset(progressCache, tk[c].jobId, tk[c].total)
  /\ \E threw \in Throws(outcome[c] = "sent") :
       /\ hist' = HistPublish(hist, tk[c].jobId, threw)
       /\ tk' = [tk EXCEPT ![c].pc = IF outcome[c] = "sent" THEN Publish(threw, "flush")
                                     ELSE "read"]
  /\ UNCHANGED <<plan, router, limiter, requests, env, campaign, jobs, route, sync, hd, retry, outcome>>

\* Success path with batching: await flushProgress(jobId) before the completion check.
WorkerFlush(c) ==
  /\ tk[c].pc = "flush"
  /\ IF FlushNeeded(progressCache, tk[c].jobId)
     THEN /\ jobs' = FlushWrite(jobs, progressCache, tk[c].jobId)
          /\ tk' = [tk EXCEPT ![c].pc = "flushed"]
     ELSE /\ tk' = [tk EXCEPT ![c].pc = "read"]
          /\ UNCHANGED jobs
  /\ UNCHANGED <<plan, router, limiter, requests, env, campaign, route, sync, hd, progressCache,
                 retry, outcome, hist>>

WorkerFlushed(c) ==
  /\ tk[c].pc = "flushed"
  /\ progressCache' = FlushReset(progressCache, tk[c].jobId, tk[c].total)
  /\ tk' = [tk EXCEPT ![c].pc = "read"]
  /\ UNCHANGED <<plan, router, limiter, requests, env, campaign, jobs, route, sync, hd, retry,
                 outcome, hist>>

\* const updatedJob = await Job.findById(jobId); done && status !== 'completed'.
WorkerRead(c) ==
  /\ tk[c].pc = "read"
  /\ LET job == jobs[tk[c].jobId]
         total == IF tk[c].total # 0 THEN tk[c].total ELSE job.total
         done == (job.sent + job.failed >= total) /\ total > 0
     IN  tk' = IF done /\ job.status # "completed"
               THEN [tk EXCEPT ![c].pc = "complete",
                               ![c].snapSent = job.sent,
                               ![c].snapFailed = job.failed]
               ELSE [tk EXCEPT ![c].pc = WorkerEnd(tk[c])]
  /\ UNCHANGED <<plan, router, limiter, requests, env, campaign, jobs, route, sync, hd, progressCache,
                 retry, outcome, hist>>

\* Job.updateOne({_id, status: {$ne: 'completed'}}, {status: 'completed'}); the
\* result of the update is not looked at, and the campaign stats update with the
\* counters read follows.
WorkerComplete(c) ==
  /\ tk[c].pc = "complete"
  /\ jobs' = JobCompleteIfNot(jobs, tk[c].jobId)
  /\ campaign' = CampaignRoll(campaign, tk[c].snapSent, tk[c].snapFailed, tk[c].total)
  /\ hist' = HistRoll(HistWrite(hist, jobs, tk[c].jobId, "completed"), tk[c].jobId)
  /\ tk' = [tk EXCEPT ![c] = [@ EXCEPT !.pc = "count", !.snapSent = 0, !.snapFailed = 0]]
  /\ UNCHANGED <<plan, router, limiter, requests, env, route, sync, hd, progressCache, retry, outcome>>

\* countDocuments of the jobs still pending or processing.
WorkerCount(c) ==
  /\ tk[c].pc = "count"
  /\ tk' = [tk EXCEPT ![c].pc = IF RemainingJobs(jobs) = 0 THEN "campaign"
                                ELSE WorkerEnd(tk[c])]
  /\ UNCHANGED <<plan, router, limiter, requests, env, campaign, jobs, route, sync, hd, progressCache,
                 retry, outcome, hist>>

\* remaining === 0: the campaign is marked completed and 'campaign-completed'
\* is emitted.
WorkerCampaign(c) ==
  /\ tk[c].pc = "campaign"
  /\ campaign' = CampaignComplete(campaign)
  /\ \E threw \in Throws(TRUE) :
       /\ hist' = HistPublish(hist, tk[c].jobId, threw)
       /\ tk' = [tk EXCEPT ![c].pc = Publish(threw, WorkerEnd(tk[c]))]
  /\ UNCHANGED <<plan, router, limiter, requests, env, jobs, route, sync, hd, progressCache,
                 retry, outcome>>

\* ---------------------------------------------------- RetryService
\* jobSchema.errorLog: the paths an errorLog element has (timestamp is set by its
\* default and never read, the entries of the model leave it out).
ErrorLogPaths == {"email", "error", "timestamp", "retryCount"}

\* Mongoose casts an update against the schema (strict mode): a $set path the
\* schema does not declare is removed from the update before it is sent.
CastSet(set) == [p \in (DOMAIN set) \cap ErrorLogPaths |-> set[p]]

\* $set on one array element: the given paths replaced, the others kept.
ApplySet(entry, set) ==
  [p \in (DOMAIN entry) \cup (DOMAIN set) |-> IF p \in DOMAIN set THEN set[p] ELSE entry[p]]

\* error.resolved as the filter reads it: undefined when the element has no such path.
EntryResolved(entry) == "resolved" \in DOMAIN entry /\ entry["resolved"]

\* The $set of the success branch and of the failure branch.
RetrySuccessSet(entry) ==
  [resolved |-> TRUE, retryCount |-> entry.retryCount + 1, resolvedAt |-> "now"]

RetryFailureSet(entry, error) == [retryCount |-> entry.retryCount + 1, error |-> error]

\* errorLog.filter(error => error.retryCount < 3 && !error.resolved).
RetryCandidates(job) ==
  {k \in DOMAIN job.errorLog :
     job.errorLog[k].retryCount < RETRY_CEILING /\ ~EntryResolved(job.errorLog[k])}

RECURSIVE MathPow2(_)
MathPow2(m) == IF m = 0 THEN 1 ELSE 2 * MathPow2(m - 1)

MathMax(S) == CHOOSE x \in S : \A y \in S : y <= x

\* The delay option of the retry-failed-emails job scheduleRetries adds:
\* Math.pow(2, Math.max(...unresolvedErrors.map(e => e.retryCount))) * 60000.
ScheduleDelay_AllEntries(job) ==
  MathPow2(MathMax({job.errorLog[k].retryCount : k \in DOMAIN job.errorLog}))
    * RETRY_BASE_DELAY

ScheduleDelay(job) ==
  MathPow2(MathMax({job.errorLog[k].retryCount : k \in RetryCandidates(job)}))
    * RETRY_BASE_DELAY

\* scheduleRetries, for one job of its Job.find({status: 'completed', errorLog
\* non-empty}): with unresolved entries below the ceiling it adds a
\* retry-failed-emails job for it.
RetryScan(b) ==
  /\ retry.passes < retry.limit
  /\ jobs[b].status = "completed"
  /\ jobs[b].errorLog # << >>
  /\ RetryCandidates(jobs[b]) # {}
  /\ retry' = [retry EXCEPT !.queued = Append(@, b),
                            !.passes = @ + 1,
                            !.lastScan = [job |-> b, sel |-> RetryCandidates(jobs[b]),
                                          delay |-> ScheduleDelay(jobs[b])]]
  /\ UNCHANGED <<plan, router, limiter, requests, env, campaign, jobs, route, sync, hd, tk,
                 progressCache, outcome, hist>>

\* The retry-failed-emails processor of worker w takes the next job and
\* retryFailedEmails reads the Job document: with nothing to retry it returns,
\* otherwise the selected entries are re-sent concurrently.
RetryStart(w) ==
  /\ retry.run[w].job = 0
  /\ retry.queued # << >>
  /\ LET b == Head(retry.queued)
         sel == RetryCandidates(jobs[b])
     IN  /\ retry' = IF jobs[b].errorLog = << >> \/ sel = {}
                     THEN [retry EXCEPT !.queued = Tail(@)]
                     ELSE [retry EXCEPT !.queued = Tail(@),
                                        !.run[w] = [job |-> b, entries |-> jobs[b].errorLog,
                                                    pending |-> sel]]
         /\ hist' = [hist EXCEPT ![b].retried = TRUE]
  /\ UNCHANGED <<plan, router, limiter, requests, env, campaign, jobs, route, sync, hd, tk,
                 progressCache, outcome>>

\* The first errorLog element with this email: what 'errorLog.$' addresses.
FirstWithEmail(job, email) ==
  CHOOSE k \in DOMAIN job.errorLog :
    /\ job.errorLog[k].email = email
    /\ \A j \in 1..(k - 1) : job.errorLog[j].email # email

\* One selected entry of the pass of worker w: sendEmail(emailData, 3) returns and
\* the job is updated from the entry as retryFailedEmails read it.
RetrySend(w, k) ==
  /\ retry.run[w].job # 0
  /\ k \in retry.run[w].pending
  /\ \E ok \in BOOLEAN :
       LET b == retry.run[w].job
           entry == retry.run[w].entries[k]
           pos == FirstWithEmail(jobs[b], entry.email)
           left == retry.run[w].pending \ {k}
           error == ErrorMessage(entry.email, retry.attempts[entry.email] + 1)
       IN  /\ jobs' = IF ok
                THEN [jobs EXCEPT ![b].errorLog[pos] =
                                     ApplySet(@, CastSet(RetrySuccessSet(entry))),
                                  ![b].sent = @ + 1,
                                  ![b].failed = @ - 1]
                ELSE [jobs EXCEPT ![b].errorLog[pos] =
                                     ApplySet(@, CastSet(RetryFailureSet(entry, error)))]
           /\ retry' = [retry EXCEPT
                  !.run[w] = IF left = {} THEN NoPass ELSE [@ EXCEPT !.pending = left],
                  !.attempts[entry.email] = @ + 1,
                  !.lastScan = IF @.job = b THEN NoScan ELSE @]
  /\ UNCHANGED <<plan, router, limiter, requests, env, campaign, route, sync, hd, tk, progressCache,
                 outcome, hist>>

PipeNext ==
  \/ RouteSend
  \/ RouteSubmitQueued
  \/ RouteSubmitFallback
  \/ \E c \in DOMAIN tk : SyncSend(c)
  \/ SyncFinalize
  \/ SyncCount
  \/ SyncCampaign
  \/ \E b \in DOMAIN hd : HandlerStart(b)
  \/ \E b \in DOMAIN hd : HandlerRead(b)
  \/ \E b \in DOMAIN hd : HandlerComplete(b)
  \/ \E b \in DOMAIN hd : HandlerCount(b)
  \/ \E b \in DOMAIN hd : HandlerCampaign(b)
  \/ \E c \in DOMAIN tk : WorkerSend(c)
  \/ \E c \in DOMAIN tk : WorkerIncFlushed(c)
  \/ \E c \in DOMAIN tk : WorkerFlush(c)
  \/ \E c \in DOMAIN tk : WorkerFlushed(c)
  \/ \E c \in DOMAIN tk : WorkerRead(c)
  \/ \E c \in DOMAIN tk : WorkerComplete(c)
  \/ \E c \in DOMAIN tk : WorkerCount(c)
  \/ \E c \in DOMAIN tk : WorkerCampaign(c)

\* ---------------------------------------------------- concurrent send requests
\* POST /:id/send handled for several requests at once: the awaits of the handler
\* (findOne, save, createBatches / processBatches) are the points where another
\* request's handler may run.
NoRequests == << >>
RequestIdle == [pc |-> "idle", status |-> "none", batches |-> << >>]

RequestInit ==
  /\ requests = [r \in 1..MaxRequests |-> RequestIdle]
  /\ env \in [n : 0..MaxContacts, batchSize : 1..MaxContacts, batching : {FALSE},
              attempts : {1}, io : {"ok"}]
  /\ campaign = [status |-> "draft", sent |-> 0, failed |-> 0, total |-> 0, announced |-> 0]
  /\ jobs = << >>
  /\ route = [pc |-> "off", next |-> 1, batches |-> << >>, results |-> << >>]
  /\ sync = SyncIdle
  /\ hd = << >>
  /\ tk = << >>
  /\ progressCache = << >>
  /\ retry = RetryIdle
  /\ outcome = << >>
  /\ hist = << >>

\* const campaign = await Campaign.findOne(...): the request holds its own copy.
RequestFind(r) ==
  /\ requests[r].pc = "idle"
  /\ requests' = [requests EXCEPT ![r].pc = "found", ![r].status = campaign.status]
  /\ UNCHANGED <<plan, router, limiter, pipeVars>>

\* if (campaign.status === 'sending') return res.status(400): tested on the copy.
RequestReject(r) ==
  /\ requests[r].pc = "found"
  /\ requests[r].status = "sending"
  /\ requests' = [requests EXCEPT ![r].pc = "rejected"]
  /\ UNCHANGED <<plan, router, limiter, pipeVars>>

\* campaign.status = 'sending'; await campaign.save().
RequestSave(r) ==
  /\ requests[r].pc = "found"
  /\ requests[r].status # "sending"
  /\ requests' = [requests EXCEPT ![r].pc = "saved", ![r].status = "sending"]
  /\ campaign' = [campaign EXCEPT !.status = "sending"]
  /\ UNCHANGED <<plan, router, limiter, env, jobs, route, sync, hd, tk, progressCache,
                 retry, outcome, hist>>

\* createBatches and processBatches, then the response; with no contact
\* createBatches throws and the catch block resets the campaign to 'draft'.
RequestDispatch(r) ==
  /\ requests[r].pc = "saved"
  /\ IF env.n = 0
     THEN /\ campaign' = [campaign EXCEPT !.status = "draft"]
          /\ requests' = [requests EXCEPT ![r].pc = "error"]
          /\ UNCHANGED jobs
     ELSE LET made == CreateBatches([c \in 1..env.n |-> c], env.batchSize)
          IN  /\ jobs' = jobs \o made.jobs
              /\ requests' = [requests EXCEPT ![r].pc = "responded",
                                              ![r].batches = made.batches]
              /\ UNCHANGED campaign
  /\ UNCHANGED <<plan, router, limiter, env, route, sync, hd, tk, progressCache,
                 retry, outcome, hist>>

\* The last batch of the send finishes: the campaign is set 'completed'.
RequestFinish(r) ==
  /\ requests[r].pc = "responded"
  /\ requests' = [requests EXCEPT ![r].pc = "done"]
  /\ campaign' = CampaignComplete(campaign)
  /\ UNCHANGED <<plan, router, limiter, env, jobs, route, sync, hd, tk, progressCache,
                 retry, outcome, hist>>

RequestNext ==
  \/ \E r \in DOMAIN requests : RequestFind(r)
  \/ \E r \in DOMAIN requests : RequestReject(r)
  \/ \E r \in DOMAIN requests : RequestSave(r)
  \/ \E r \in DOMAIN requests : RequestDispatch(r)
  \/ \E r \in DOMAIN requests : RequestFinish(r)

\* ==================================================== specifications
\* ---------------------------------------------------- Bull limiter
\* new Bull('email-queue', {limiter: {max, duration}}): at most max jobs of the
\* queue are started per duration; a job over the limit waits for a later
\* window. processBatchSynchronously calls emailService.sendEmail itself.
LimiterOff == [pc |-> "off"]

LimiterInit ==
  limiter \in [pc : {"on"}, max : 1..MaxLimiterMax, waiting : 0..MaxLimiterTasks,
               syncLeft : 0..MaxLimiterTasks, taken : {0}, sends : {0}]

\* A worker starts a waiting send-email job: the limiter admits it.
LimiterTake ==
  /\ limiter.pc = "on"
  /\ limiter.waiting > 0
  /\ limiter.taken < limiter.max
  /\ limiter' = [limiter EXCEPT !.waiting = @ - 1, !.taken = @ + 1, !.sends = @ + 1]
  /\ UNCHANGED <<plan, router, requests, pipeVars>>

\* The duration elapses: a new window starts.
LimiterWindow ==
  /\ limiter.pc = "on"
  /\ limiter.sends > 0
  /\ limiter' = [limiter EXCEPT !.taken = 0, !.sends = 0]
  /\ UNCHANGED <<plan, router, requests, pipeVars>>

\* processBatchSynchronously sends to one contact of its slice: sendEmail is
\* called directly, no job of the queue is involved.
LimiterSyncSend ==
  /\ limiter.pc = "on"
  /\ limiter.syncLeft > 0
  /\ limiter' = [limiter EXCEPT !.syncLeft = @ - 1, !.sends = @ + 1]
  /\ UNCHANGED <<plan, router, requests, pipeVars>>

RateNext == LimiterTake \/ LimiterWindow \/ LimiterSyncSend
RateSpecInit == LimiterInit /\ requests = NoRequests /\ plan = PlanOff /\ router = RouterOff /\ PipeOff
RateSpec == RateSpecInit /\ [][RateNext]_vars

RequestSpecInit == limiter = LimiterOff /\ RequestInit /\ plan = PlanOff /\ router = RouterOff
RequestSpec == RequestSpecInit /\ [][RequestNext]_vars

PlanSpecInit == limiter = LimiterOff /\ requests = NoRequests /\ PlanInit /\ router = RouterOff /\ PipeOff
PlanSpec == PlanSpecInit /\ [][PlanNext]_vars

RouterSpecInit == limiter = LimiterOff /\ requests = NoRequests /\ RouterInit /\ plan = PlanOff /\ PipeOff
RouterSpec == RouterSpecInit /\ [][RouterNext]_vars

\* RetrySpec: the retry coordinator on a campaign of one batch that the
\* synchronous fallback has completed (the only path that writes errorLog):
\* recipients 1..n, those in F failed, their entries pushed in any order.
RetryInit ==
  \E n \in 1..MaxRetryContacts :
    \E F \in SUBSET (1..n) :
      \E log \in [1..Cardinality(F) -> F] :
        LET contacts == [c \in 1..n |-> c]
            nf == Cardinality(F)
        IN  /\ \A i, j \in DOMAIN log : log[i] = log[j] => i = j
            /\ env = [n |-> n, batchSize |-> n, batching |-> FALSE, attempts |-> 1, io |-> "ok"]
            /\ campaign = [status |-> "completed", sent |-> n - nf, failed |-> nf,
                           total |-> n, announced |-> 1]
            /\ jobs = <<[batchNumber |-> 1, contacts |-> contacts, status |-> "completed",
                         errorLog |-> [i \in 1..nf |->
                                         [email |-> log[i], error |-> ErrorMessage(log[i], 0),
                                          retryCount |-> 0]],
                         total |-> n, sent |-> n - nf, failed |-> nf]>>
            /\ route = [pc |-> "responded", next |-> 2,
                        batches |-> <<[jobId |-> 1, batchNumber |-> 1,
                                       contacts |-> contacts, total |-> n]>>,
                        results |-> <<[jobId |-> 1, queued |-> FALSE]>>]
            /\ sync = SyncIdle
            /\ hd = <<HandlerNone>>
            /\ tk = [c \in 1..n |-> TaskNone]
            /\ progressCache = <<CacheNone>>
            /\ retry = [RetryIdle EXCEPT !.limit = MaxRetryJobs,
                                        !.attempts = [c \in 1..n |-> 0]]
            /\ outcome = [c \in 1..n |-> IF c \in F THEN "failed" ELSE "sent"]
            /\ hist = <<[transitions |-> 1, rolls |-> 1, retried |-> FALSE, publishFailed |-> FALSE,
                         accounted |-> TRUE]>>

\* ScheduleSpec: scheduleRetries on its own, on a completed fallback batch whose
\* failed recipients have been retried any number of times up to the ceiling.
ScheduleInit ==
  \E n \in 1..MaxScheduleContacts :
    \E F \in SUBSET (1..n) :
      \E log \in [1..Cardinality(F) -> F] :
        \E count \in [F -> 0..RETRY_CEILING] :
          LET contacts == [c \in 1..n |-> c]
              nf == Cardinality(F)
          IN  /\ \A i, j \in DOMAIN log : log[i] = log[j] => i = j
              /\ env = [n |-> n, batchSize |-> n, batching |-> FALSE, attempts |-> 1,
                        io |-> "ok"]
              /\ campaign = [status |-> "completed", sent |-> n - nf, failed |-> nf,
                             total |-> n, announced |-> 1]
              /\ jobs = <<[batchNumber |-> 1, contacts |-> contacts,
                           status |-> "completed",
                           errorLog |-> [i \in 1..nf |->
                                           [email |-> log[i],
                                            error |-> ErrorMessage(log[i], count[log[i]]),
                                            retryCount |-> count[log[i]]]],
                           total |-> n, sent |-> n - nf, failed |-> nf]>>
              /\ route = [pc |-> "responded", next |-> 2,
                          batches |-> <<[jobId |-> 1, batchNumber |-> 1,
                                         contacts |-> contacts, total |-> n]>>,
                          results |-> <<[jobId |-> 1, queued |-> FALSE]>>]
              /\ sync = SyncIdle
              /\ hd = <<HandlerNone>>
              /\ tk = [c \in 1..n |-> TaskNone]
              /\ progressCache = <<CacheNone>>
              /\ retry = [RetryIdle EXCEPT !.limit = 1,
                                          !.attempts = [c \in 1..n |->
                                                          IF c \in F THEN count[c] ELSE 0]]
              /\ outcome = [c \in 1..n |-> IF c \in F THEN "failed" ELSE "sent"]
              /\ hist = <<[transitions |-> 1, rolls |-> 1, retried |-> FALSE,
                           publishFailed |-> FALSE, accounted |-> TRUE]>>

ScheduleNext == \E b \in DOMAIN jobs : RetryScan(b)
ScheduleSpecInit == limiter = LimiterOff /\ requests = NoRequests /\ ScheduleInit /\ plan = PlanOff /\ router = RouterOff
ScheduleSpec == ScheduleSpecInit /\ [][ScheduleNext]_vars

RetryNext ==
  \/ \E b \in DOMAIN jobs : RetryScan(b)
  \/ \E w \in 1..RETRY_WORKERS : RetryStart(w)
  \/ \E w \in 1..RETRY_WORKERS : \E k \in retry.run[w].pending : RetrySend(w, k)

RetrySpecInit == limiter = LimiterOff /\ requests = NoRequests /\ RetryInit /\ plan = PlanOff /\ router = RouterOff
RetrySpec == RetrySpecInit /\ [][RetryNext]_vars

\* The deployment default: JOB_ATTEMPTS_EMAIL and JOB_ATTEMPTS unset, so every
\* send-email job is added with attempts 1.
Init == limiter = LimiterOff /\ requests = NoRequests /\ PipeInit /\ env.attempts = 1 /\ env.io = "ok" /\ plan = PlanOff /\ router = RouterOff
Next == PipeNext
Spec == Init /\ [][Next]_vars

\* The same pipeline under every configured JOB_ATTEMPTS_EMAIL value.
AttemptsInit == limiter = LimiterOff /\ requests = NoRequests /\ PipeInit /\ env.io = "ok" /\ plan = PlanOff /\ router = RouterOff
AttemptsSpec == AttemptsInit /\ [][Next]_vars

\* The send trigger with the queue unreachable (Redis down): every
\* emailQueue.add rejects, so every batch goes to processBatchSynchronously.
\* Batches are large enough for several chunks of SYNC_SEND_CONCURRENCY sends.
SyncPoolInit ==
  /\ limiter = LimiterOff /\ requests = NoRequests /\ plan = PlanOff /\ router = RouterOff
  /\ env \in [n : 0..MaxSyncContacts, batchSize : 1..MaxSyncContacts, batching : {FALSE},
              attempts : {1}, io : {"ok"}]
  /\ campaign = [status |-> "draft", sent |-> 0, failed |-> 0, total |-> 0, announced |-> 0]
  /\ jobs = << >>
  /\ route = [pc |-> "idle", next |-> 1, batches |-> << >>, results |-> << >>]
  /\ sync = SyncIdle
  /\ hd = << >>
  /\ tk = [c \in 1..env.n |-> TaskNone]
  /\ progressCache = << >>
  /\ retry = RetryIdle
  /\ outcome = [c \in 1..env.n |-> "none"]
  /\ hist = << >>

SyncPoolNext ==
  \/ RouteSend
  \/ RouteSubmitFallback
  \/ \E c \in DOMAIN tk : SyncSend(c)
  \/ SyncFinalize
  \/ SyncCount
  \/ SyncCampaign

SyncPoolSpec == SyncPoolInit /\ [][SyncPoolNext]_vars

\* The same pipeline with an analytics collection whose inserts may reject.
AnalyticsNext ==
  \/ Next
  \/ \E c \in DOMAIN tk : WorkerAnalyticsThrow(c)

AnalyticsSpec == Init /\ [][AnalyticsNext]_vars

\* The same pipeline with a store whose calls may reject while a batch is on the
\* synchronous fallback or in the send-batch processor.
FaultNext ==
  \/ Next
  \/ SyncThrow
  \/ RouteSubmitThrow
  \/ RouteCatch
  \/ \E b \in DOMAIN hd : HandlerThrow(b)
FaultSpec == Init /\ [][FaultNext]_vars

\* The same pipeline with the socket server down: every emit throws.
PublishInit == limiter = LimiterOff /\ requests = NoRequests /\ PipeInit /\ env.attempts = 1 /\ env.io = "down" /\ plan = PlanOff
               /\ router = RouterOff
PublishSpec == PublishInit /\ [][Next]_vars

\* Scheduling for the liveness statement: every sendEmail call returns, Bull
\* hands every queued job to a worker, and every await resumes. No step of a send
\* can be taken twice, so a step that stays possible is eventually taken.
FairSpec == Spec /\ WF_vars(Next)

\* ==================================================== properties
\* ---------------------------------------------------- state descriptions
BatchContacts(b) == ToSet(jobs[b].contacts)

\* processBatches pushed the entry of b with queueJobId null: b ran on the fallback.
FellBack(b) ==
  \E k \in DOMAIN route.results :
    route.results[k].jobId = b /\ ~route.results[k].queued

WasQueued(b) ==
  \E k \in DOMAIN route.results :
    route.results[k].jobId = b /\ route.results[k].queued

\* The first pass over batch b is over: its send-batch job and all its
\* send-email jobs have returned, or the synchronous executor has returned.
Settled(b) ==
  \/ FellBack(b)
  \/ /\ hd[b].pc = "finished"
     /\ \A c \in BatchContacts(b) : tk[c].pc = "finished"

\* The send is over: the route has responded and every batch is settled.
Quiescent ==
  /\ route.pc = "responded"
  /\ \A b \in DOMAIN jobs : Settled(b)

CountOutcome(b, o) == Cardinality({c \in BatchContacts(b) : outcome[c] = o})

\* ---------------------------------------------------- BatchPlanner
\* C4: for N >= 1 contacts and batch size B >= 1, createBatches returns
\* k = ceil(N/B) batches (k*B >= N > (k-1)*B), reports totalBatches = k and
\* totalContacts = N, the batch sizes sum to N, no batch is larger than B (none is
\* empty), and batch j carries batchNumber j, in the summaries and in the Job
\* documents created.
C4_CreateBatchesPartition ==
  plan.pc = "returned" =>
    LET n == Len(plan.contacts)
        b == plan.batchSize
        k == Len(plan.batches)
    IN  /\ n >= 1
        /\ k * b >= n /\ (k - 1) * b < n
        /\ plan.totalBatches = k
        /\ plan.totalContacts = n
        /\ Len(plan.jobs) = k
        /\ SumSeq([j \in 1..k |-> Len(plan.batches[j].contacts)]) = n
        /\ \A j \in 1..k :
             /\ Len(plan.batches[j].contacts) <= b
             /\ Len(plan.batches[j].contacts) >= 1
             /\ plan.batches[j].total = Len(plan.batches[j].contacts)
             /\ plan.batches[j].batchNumber = j
             /\ plan.jobs[j].batchNumber = j
             /\ plan.jobs[j].total = Len(plan.batches[j].contacts)

\* A returned plan whose last batch is partial: 5 contacts in batches of 2.
C4_Witness ==
  /\ plan.pc = "returned"
  /\ Len(plan.contacts) = 5 /\ plan.batchSize = 2
  /\ Len(plan.batches) = 3
  /\ Len(plan.batches[3].contacts) = 1

\* The recipient lists of the batches, in ascending batch number, end to end.
RECURSIVE ConcatContacts(_)
ConcatContacts(bs) ==
  IF bs = << >> THEN << >> ELSE Head(bs).contacts \o ConcatContacts(Tail(bs))

\* C29: the batches returned by createBatches (and the Job documents created),
\* taken in ascending batch number, concatenate to the input sequence: every
\* recipient is in exactly one batch and every batch but the last has exactly
\* batchSize recipients.
C29_CreateBatchesInOrder ==
  plan.pc = "returned" =>
    LET k == Len(plan.batches)
    IN  /\ ConcatContacts(plan.batches) = plan.contacts
        /\ ConcatContacts(plan.jobs) = plan.contacts
        /\ \A c \in ToSet(plan.contacts) :
             Cardinality({j \in 1..k : c \in ToSet(plan.batches[j].contacts)}) = 1
        /\ \A j \in 1..(k - 1) : Len(plan.batches[j].contacts) = plan.batchSize

\* 7 contacts in batches of 3: two full batches and a last one of 1.
C29_Witness ==
  /\ plan.pc = "returned"
  /\ Len(plan.contacts) = 7 /\ plan.batchSize = 3
  /\ Len(plan.batches) = 3
  /\ plan.batches[2].contacts = <<4, 5, 6>>
  /\ plan.batches[3].contacts = <<7>>

\* C15: with no eligible recipient the send fails in createBatches ('No
\* contacts found matching the filters') and leaves nothing behind: no Job
\* document (none of size zero either), no send-batch or send-email job on the
\* queue, no synchronous run, no entry pushed by processBatches.
C15_EmptySetNoEffect ==
  env.n = 0 =>
    /\ jobs = << >>
    /\ hd = << >>
    /\ \A c \in DOMAIN tk : tk[c].pc = "none"
    /\ sync = SyncIdle
    /\ route.batches = << >> /\ route.results = << >>
    /\ route.pc \in {"idle", "error"}

\* The send of a campaign without recipients has failed.
C15_Witness ==
  /\ env.n = 0
  /\ route.pc = "error"
  /\ jobs = << >>

\* ---------------------------------------------------- ProviderRouter
RouterP == Len(router.providers)

\* The calls (round, position) whose transport would accept the message.
RouterUps ==
  {x \in (0..(router.maxRetries - 1)) \X (1..RouterP) :
     router.up[x[1]][router.providers[x[2]]]}

RouterBefore(x, y) == x[1] < y[1] \/ (x[1] = y[1] /\ x[2] <= y[2])

\* C9: when some provider call would succeed, sendEmail returns success
\* attributed to the first such provider (earliest round, then priority order); it
\* has called exactly the providers before it, in order, and that one last; with
\* a success in the first round no backoff sleep was taken.
C9_FirstSuccessWins ==
  (router.pc = "returned" /\ RouterUps # {}) =>
    LET first == CHOOSE x \in RouterUps : \A y \in RouterUps : RouterBefore(x, y)
        name == router.providers[first[2]]
    IN  /\ router.result.success
        /\ router.result.provider = name
        /\ Len(router.calls) = first[1] * RouterP + first[2]
        /\ router.calls[Len(router.calls)] = <<first[1], name>>
        /\ \A j \in 1..Len(router.calls) :
             router.calls[j] = <<(j - 1) \div RouterP,
                                 router.providers[((j - 1) % RouterP) + 1]>>
        /\ Len(router.sleeps) = first[1]
        /\ (first[1] = 0 => router.sleeps = << >>)

\* Providers [A fails, B succeeds]: success by B in round 1, two calls, no sleep.
C9_Witness ==
  /\ router.pc = "returned"
  /\ router.providers = <<"mailgun", "mailgun-backup">>
  /\ router.maxRetries = 3
  /\ ~router.up[0]["mailgun"] /\ router.up[0]["mailgun-backup"]
  /\ router.result.success /\ router.result.provider = "mailgun-backup"
  /\ router.calls = <<<<0, "mailgun">>, <<0, "mailgun-backup">>>>
  /\ router.sleeps = << >>

\* C10: with P >= 1 providers that fail on every call and maxRetries = R,
\* sendEmail has made exactly R * P provider calls when it returns, round by
\* round and in priority order within each round, and returns success = false
\* with the error of the last call.
C10_AllFailBounded ==
  (router.pc = "returned" /\ RouterP >= 1 /\ RouterUps = {}) =>
    /\ Len(router.calls) = router.maxRetries * RouterP
    /\ \A j \in 1..Len(router.calls) :
         router.calls[j] = <<(j - 1) \div RouterP,
                             router.providers[((j - 1) % RouterP) + 1]>>
    /\ ~router.result.success
    /\ router.result.error = ErrorOf(router.providers[RouterP], router.maxRetries - 1)
    /\ router.result.attempts = router.maxRetries

\* Two providers failing through three rounds: six calls, then the failure result.
C10_Witness ==
  /\ router.pc = "returned"
  /\ RouterP = 2 /\ router.maxRetries = 3
  /\ RouterUps = {}
  /\ Len(router.calls) = 6
  /\ ~router.result.success

\* C16: in the first pass over a batch every recipient's send task is consumed
\* once, whatever attempts value the send-email jobs were added with: no
\* recipient is handed to sendEmail a second time, so no recipient's outcome is
\* added to the batch counters twice.
C16_AttemptedOnce ==
  \A c \in DOMAIN tk : tk[c].made <= 1


\* C11: with no provider configured sendEmail fails at once with a configuration
\* error: when it returns it has made no provider call, gone through no round,
\* taken no backoff sleep, and its error names the missing provider
\* configuration (the message of getNextProvider).
C11_NoProviderFailsImmediately ==
  (router.pc = "returned" /\ RouterP = 0) =>
    /\ router.calls = << >>
    /\ router.attempt = 0
    /\ router.sleeps = << >>
    /\ ~router.result.success
    /\ router.result.error = "No email providers configured"

\* ---------------------------------------------------- RetryCoordinator
\* The errorLog position a pass of retryFailedEmails addresses for entry k of its snapshot.
RetryTarget(w, k) ==
  FirstWithEmail(jobs[retry.run[w].job], retry.run[w].entries[k].email)

\* The step is a re-send of retryFailedEmails; the email, job and errorLog
\* position it is about; whether its sendEmail succeeded.
RetrySendStep == retry'.attempts # retry.attempts
RetrySentEmail == CHOOSE c \in DOMAIN retry.attempts : retry'.attempts[c] # retry.attempts[c]
RetrySentJob ==
  CHOOSE b \in DOMAIN jobs : \E k \in DOMAIN jobs[b].errorLog :
    jobs[b].errorLog[k].email = RetrySentEmail
RetrySentPos == FirstWithEmail(jobs[RetrySentJob], RetrySentEmail)
RetrySentOk == jobs'[RetrySentJob].sent # jobs[RetrySentJob].sent

\* Everything of the job but the entry at pos and the counters is as before.
RetryFrame(b, pos) ==
  /\ jobs'[b].total = jobs[b].total
  /\ jobs'[b].status = jobs[b].status
  /\ jobs'[b].sent + jobs'[b].failed = jobs[b].sent + jobs[b].failed
  /\ Len(jobs'[b].errorLog) = Len(jobs[b].errorLog)
  /\ \A j \in DOMAIN jobs[b].errorLog :
       j # pos => jobs'[b].errorLog[j] = jobs[b].errorLog[j]

\* C12: no errorLog entry whose retryCount has reached the ceiling (3) is
\* re-attempted: no entry is re-sent more than 3 times in total, an entry a
\* running pass is about to re-send is below the ceiling, a scan selects no
\* entry at the ceiling, and a scan repeated with no re-send in between selects
\* the same entries.
C12_CeilingNeverExceeded ==
  /\ \A c \in DOMAIN retry.attempts : retry.attempts[c] <= RETRY_CEILING
  /\ \A w \in 1..RETRY_WORKERS : \A k \in retry.run[w].pending :
       jobs[retry.run[w].job].errorLog[RetryTarget(w, k)].retryCount < RETRY_CEILING
  /\ \A b \in DOMAIN jobs : \A k \in RetryCandidates(jobs[b]) :
       jobs[b].errorLog[k].retryCount < RETRY_CEILING
  /\ retry.lastScan.job # 0 =>
       RetryCandidates(jobs[retry.lastScan.job]) = retry.lastScan.sel

\* Entries of the errorLog of b that are resolved.
ResolvedEntries(js, b) == {k \in DOMAIN js[b].errorLog : EntryResolved(js[b].errorLog[k])}

\* C25: over any sequence of retry passes no entry's retryCount decreases, a
\* resolved entry stays resolved, and the units moved from failed to sent are
\* exactly the resolved entries: one successful re-send per resolved entry and
\* none for an entry that is not resolved (so none is re-sent after its success).
C25_EntriesMonotone ==
  [][\A b \in DOMAIN jobs :
       /\ \A k \in DOMAIN jobs[b].errorLog :
            /\ jobs'[b].errorLog[k].retryCount >= jobs[b].errorLog[k].retryCount
            /\ EntryResolved(jobs[b].errorLog[k]) => EntryResolved(jobs'[b].errorLog[k])
       /\ jobs'[b].sent = CountOutcome(b, "sent") + Cardinality(ResolvedEntries(jobs', b))]_vars

\* The entries scheduleRetries treats as pending: unresolved and under the ceiling.
PendingEntries(job) ==
  {k \in DOMAIN job.errorLog :
     /\ job.errorLog[k].retryCount < 3
     /\ ~("resolved" \in DOMAIN job.errorLog[k] /\ job.errorLog[k]["resolved"])}

\* C30: a retry-failed-emails job that scheduleRetries has added is for a batch
\* with pending entries, and its delay is one minute times 2^m for m the
\* largest retryCount among them: 1, 2 or 4 minutes, never more than 4.
C30_ScheduleDelay ==
  retry.lastScan.job # 0 =>
    LET job == jobs[retry.lastScan.job]
        pend == PendingEntries(job)
    IN  /\ pend # {}
        /\ \E k \in pend :
             /\ \A j \in pend : job.errorLog[j].retryCount <= job.errorLog[k].retryCount
             /\ retry.lastScan.delay =
                  CASE job.errorLog[k].retryCount = 0 -> 60000
                    [] job.errorLog[k].retryCount = 1 -> 120000
                    [] job.errorLog[k].retryCount = 2 -> 240000
        /\ retry.lastScan.delay <= 240000

\* Three failed recipients, one at the ceiling and one at retryCount 2: the
\* job is scheduled with 4 minutes.
C30_Witness ==
  /\ retry.lastScan.job = 1
  /\ Len(jobs[1].errorLog) = 3
  /\ \E k \in DOMAIN jobs[1].errorLog : jobs[1].errorLog[k].retryCount = 3
  /\ \E k \in DOMAIN jobs[1].errorLog : jobs[1].errorLog[k].retryCount = 2
  /\ retry.lastScan.delay = 240000

\* C33: under any interleaving of retry passes on a batch the counters stay in
\* range: progress.failed is never negative, progress.sent never exceeds
\* progress.total, and sent + failed stays the number of recipients.
C33_RetryCountersInRange ==
  \A b \in DOMAIN jobs :
    /\ jobs[b].failed >= 0
    /\ jobs[b].sent <= jobs[b].total
    /\ jobs[b].sent + jobs[b].failed = jobs[b].total

\* C13: a re-send that succeeds makes exactly that entry resolved with its
\* retryCount one higher, and moves one unit from progress.failed to
\* progress.sent; total, sent + failed, the status and the other entries are
\* unchanged.
C13_RetrySuccessResolves ==
  [][(RetrySendStep /\ RetrySentOk) =>
       LET b == RetrySentJob
           pos == RetrySentPos
       IN  /\ ~EntryResolved(jobs[b].errorLog[pos])
           /\ EntryResolved(jobs'[b].errorLog[pos])
           /\ jobs'[b].errorLog[pos].retryCount = jobs[b].errorLog[pos].retryCount + 1
           /\ jobs'[b].sent = jobs[b].sent + 1
           /\ jobs'[b].failed = jobs[b].failed - 1
           /\ RetryFrame(b, pos)]_vars

\* C14: a re-send that fails again raises that entry's retryCount by one and
\* replaces its error by the new error; the entry stays unresolved and sent,
\* failed, total, the status and the other entries are unchanged.
C14_RetryFailureFrame ==
  [][(RetrySendStep /\ ~RetrySentOk) =>
       LET b == RetrySentJob
           pos == RetrySentPos
           c == RetrySentEmail
       IN  /\ jobs'[b].errorLog[pos].retryCount = jobs[b].errorLog[pos].retryCount + 1
           /\ jobs'[b].errorLog[pos].error = ErrorMessage(c, retry'.attempts[c])
           /\ jobs'[b].errorLog[pos].email = c
           /\ ~EntryResolved(jobs'[b].errorLog[pos])
           /\ jobs'[b].sent = jobs[b].sent
           /\ jobs'[b].failed = jobs[b].failed
           /\ RetryFrame(b, pos)]_vars

\* ---------------------------------------------------- batch completion
\* The send has ended as required: every batch 'completed' with
\* sent + failed = total, and the campaign 'completed'.
SendCompleted ==
  /\ \A b \in DOMAIN jobs :
       /\ jobs[b].status = "completed"
       /\ jobs[b].sent + jobs[b].failed = jobs[b].total
  /\ campaign.status = "completed"

\* ---------------------------------------------------- ProgressPublisher
PublishFailed == \E b \in DOMAIN hist : hist[b].publishFailed

\* The handler, worker or synchronous run was stopped by an exception of an emit.
Aborted ==
  \/ sync.pc = "aborted"
  \/ \E b \in DOMAIN hd : hd[b].pc = "aborted"
  \/ \E c \in DOMAIN tk : tk[c].pc = "aborted"

\* C17: an emit of 'email-sent', 'batch-completed' or 'campaign-completed' that
\* throws stops nothing and undoes nothing: no handler, worker or synchronous
\* run is aborted by it, and (direct progress writes, where a send with working
\* publishes ends complete) the send still ends with every batch 'completed',
\* its counters equal to the recipients' outcomes, and the campaign 'completed'.
C17_PublishFailureHarmless ==
  PublishFailed =>
    /\ ~Aborted
    /\ (Quiescent /\ ~env.batching) =>
         /\ SendCompleted
         /\ \A b \in DOMAIN jobs :
              /\ jobs[b].sent = CountOutcome(b, "sent")
              /\ jobs[b].failed = CountOutcome(b, "failed")

\* A send over two batches, one queued and one on the fallback, that finished
\* although the publishes of both batches threw.
C17_Witness ==
  /\ Quiescent /\ ~env.batching
  /\ Len(jobs) = 2
  /\ \A b \in DOMAIN hist : hist[b].publishFailed
  /\ \E b \in DOMAIN jobs : FellBack(b)
  /\ \E b \in DOMAIN jobs : WasQueued(b)
  /\ campaign.status = "completed"

\* C18: a recipient whose send failed does not abort its batch, on the queue
\* or on the fallback: once the first pass over the batch is over every
\* recipient of the batch has been attempted and the batch is 'completed' with
\* sent + failed = total.
C18_FailedSendKeepsBatch ==
  \A b \in DOMAIN jobs :
    (Quiescent /\ CountOutcome(b, "failed") >= 1) =>
      /\ \A c \in BatchContacts(b) : outcome[c] # "none"
      /\ jobs[b].status = "completed"
      /\ jobs[b].sent + jobs[b].failed = jobs[b].total

\* ---------------------------------------------------- failure of a fallback
\* The synchronous fallback of batch b was left through an exception and the
\* route has answered 500.
FallbackFailed(b) ==
  /\ route.pc = "error"
  /\ sync.pc = "thrown"
  /\ sync.job = b

Submitted(b) == b < route.next \/ (sync.job = b /\ sync.pc # "idle")

\* C19: a batch whose fallback failed does not stop the campaign: every other
\* batch, the later ones in particular, has been handed to the queue or to the
\* fallback by the time the route answers.
C19_BatchFailureIsolated ==
  \A k \in DOMAIN jobs :
    FallbackFailed(k) => \A b \in DOMAIN jobs : b # k => Submitted(b)

\* C20: a batch whose queue submission and fallback both failed is marked
\* 'failed' with the error on its record, and the campaign stays 'sending' while
\* a batch is not terminal.
C20_FailedFallbackMarked ==
  \A k \in DOMAIN jobs :
    FallbackFailed(k) =>
      /\ jobs[k].status = "failed"
      /\ jobs[k].errorLog # << >>
      /\ (\E b \in DOMAIN jobs : jobs[b].status \notin {"completed", "failed"})
           => campaign.status = "sending"

\* ---------------------------------------------------- RateLimiter
\* C21: in no rate window are more recipient sends made than the limiter's
\* max, sends of the synchronous fallback included.
C21_WindowWithinCeiling ==
  limiter.pc = "on" => limiter.sends <= limiter.max

\* ---------------------------------------------------- flush before check
\* C22: with progress batching, a completion check (the Job.findById of the
\* send-email processor, after a sent and after a failed outcome) reads the
\* job only after the increments buffered for that job have been flushed: at
\* the read the cache holds no increment of the job.
C22_FlushBeforeCheck ==
  \A c \in DOMAIN tk :
    (env.batching /\ tk[c].pc = "read") =>
      /\ progressCache[tk[c].jobId].sent = 0
      /\ progressCache[tk[c].jobId].failed = 0

\* ---------------------------------------------------- campaign completion
\* C23: however the completion checks of a send interleave, the campaign is
\* written 'completed' once and 'campaign-completed' is emitted at most once.
C23_CampaignCompletedOnce ==
  campaign.announced <= 1

\* ---------------------------------------------------- error log
\* C24: before any retry, the errorLog of a batch has one entry per failed
\* recipient counted in progress.failed: the two are written by the same
\* update, on the queue as on the fallback.
C24_ErrorLogMatchesFailed ==
  \A b \in DOMAIN jobs :
    ~hist[b].retried => Len(jobs[b].errorLog) = jobs[b].failed

\* ---------------------------------------------------- batch status
\* C26: 'completed' and 'failed' are terminal: no step changes the status of a
\* batch that is completed or failed, a send-batch processor that fails after
\* its enqueue loop included.
C26_TerminalStatusKept ==
  [][\A b \in DOMAIN jobs :
       jobs[b].status \in {"completed", "failed"} => jobs'[b].status = jobs[b].status]_vars

\* ---------------------------------------------------- campaign lifecycle
\* C27: the status of a campaign changes only along draft -> sending ->
\* completed | failed: never from 'sending' back to 'draft' once its batches
\* exist, never from 'completed' to anything else.
C27_CampaignLifecycle ==
  [][campaign'.status # campaign.status =>
       <<campaign.status, campaign'.status>> \in
         {<<"draft", "sending">>, <<"sending", "completed">>, <<"sending", "failed">>}]_vars

\* ---------------------------------------------------- persistence before submission
\* Something of the send is running or has run: processBatches was entered, a
\* send-batch or send-email job exists, or the fallback is at work.
SendUnderWay ==
  \/ route.pc \in {"submit", "sync", "responded"}
  \/ sync.pc # "idle"
  \/ \E b \in DOMAIN hd : hd[b].pc # "none"
  \/ \E c \in DOMAIN tk : tk[c].pc # "none"

\* C28: when the first batch is submitted, to the queue or to the fallback,
\* every batch of the campaign is persisted as a 'pending' Job with
\* total = its recipient count and sent = failed = 0; and while anything of
\* the send runs, every batch (every recipient's batch) has its Job document.
C28_PersistedBeforeSubmit ==
  SendUnderWay =>
    /\ Len(jobs) = MathCeilDiv(env.n, env.batchSize)
    /\ Len(jobs) = Len(route.batches)
    /\ \A c \in 1..env.n : \E b \in DOMAIN jobs : c \in BatchContacts(b)
    /\ (route.pc = "submit" /\ route.next = 1) =>
         \A b \in DOMAIN jobs :
           /\ jobs[b].status = "pending"
           /\ jobs[b].total = Len(jobs[b].contacts)
           /\ jobs[b].total = route.batches[b].total
           /\ jobs[b].sent = 0 /\ jobs[b].failed = 0

\* Two batches persisted and none submitted yet.
C28_Witness ==
  /\ route.pc = "submit" /\ route.next = 1
  /\ Len(jobs) = 2
  /\ \A b \in DOMAIN jobs : jobs[b].status = "pending" /\ jobs[b].total = 1

\* ---------------------------------------------------- one path per batch
\* A send-batch job or a send-email job of batch b exists or has existed.
OnQueue(b) ==
  \/ hd[b].pc # "none"
  \/ \E c \in BatchContacts(b) : tk[c].pc # "none"

\* processBatchSynchronously runs or has run on batch b.
OnFallback(b) ==
  \/ sync.job = b /\ sync.pc # "idle"
  \/ FellBack(b)

\* C31: processBatches gives every batch to exactly one of the queue and the
\* synchronous fallback: never to both, and once the loop has passed the batch,
\* to one of them; so no recipient is sent to on both paths.
C31_OnePathPerBatch ==
  \A b \in DOMAIN jobs :
    /\ ~(OnQueue(b) /\ OnFallback(b))
    /\ b < route.next => (WasQueued(b) /\ OnQueue(b)) \/ (FellBack(b) /\ OnFallback(b))
    /\ ~(WasQueued(b) /\ FellBack(b))

\* Batch 1 is on the queue with its send-email job at work while batch 2 is
\* being sent by the fallback.
C31_Witness ==
  /\ Len(jobs) = 2
  /\ WasQueued(1) /\ tk[1].pc = "read"
  /\ sync.job = 2 /\ sync.pc = "send"

\* ---------------------------------------------------- fallback pool
\* The recipients of the chunk contacts.slice(i, i + SYNC_SEND_CONCURRENCY).
ChunkAt(contacts, i) ==
  {contacts[k] : k \in (i + 1)..(i + SYNC_SEND_CONCURRENCY) \cap DOMAIN contacts}

\* C32: on the synchronous fallback at most SYNC_SEND_CONCURRENCY sends are in
\* flight, all of one chunk; while a chunk is in flight every recipient of the
\* chunks before it has its outcome recorded and no recipient of a later chunk
\* has been sent to.
C32_SyncPoolBounded ==
  IF sync.pc = "send"
  THEN LET contacts == route.batches[route.next].contacts
       IN  /\ Cardinality(sync.pending) <= SYNC_SEND_CONCURRENCY
           /\ sync.pending \subseteq ChunkAt(contacts, sync.i)
           /\ \A k \in DOMAIN contacts :
                /\ k <= sync.i => outcome[contacts[k]] # "none"
                /\ k > sync.i + SYNC_SEND_CONCURRENCY => outcome[contacts[k]] = "none"
                /\ contacts[k] \in sync.pending => outcome[contacts[k]] = "none"
           /\ jobs[sync.job].sent + jobs[sync.job].failed
                = Cardinality({k \in DOMAIN contacts : outcome[contacts[k]] # "none"})
  ELSE sync.pending = {}

\* The second chunk of a batch of three chunks is in flight, whole.
C32_Witness ==
  /\ sync.pc = "send"
  /\ sync.i = SYNC_SEND_CONCURRENCY
  /\ Cardinality(sync.pending) = SYNC_SEND_CONCURRENCY
  /\ Len(route.batches[route.next].contacts) > 2 * SYNC_SEND_CONCURRENCY

\* ---------------------------------------------------- one send at a time
\* Requests that have been admitted and whose send has not finished.
Admitted == {r \in DOMAIN requests : requests[r].pc \in {"saved", "responded"}}

\* Batches of admitted requests that hold recipient c.
Deliveries(c) ==
  {<<r, k>> \in Admitted \X (1..MaxContacts) :
     k \in DOMAIN requests[r].batches /\ c \in ToSet(requests[r].batches[k].contacts)}

\* C34: of the send requests for a campaign at most one is admitted at a time,
\* and no recipient is in the batches of two sends that are under way together.
C34_OneSendAtATime ==
  /\ Cardinality(Admitted) <= 1
  /\ \A c \in 1..env.n : Cardinality(Deliveries(c)) <= 1

\* ---------------------------------------------------- campaign total
\* C35: once the send is over and the campaign is 'completed', the campaign's
\* stats.total is the sum of progress.total over its batches, the number of
\* recipients of the campaign.
C35_CampaignTotalIsSum ==
  (Quiescent /\ campaign.status = "completed") =>
    /\ campaign.total = SumSeq([b \in DOMAIN jobs |-> jobs[b].total])
    /\ campaign.total = env.n

\* ---------------------------------------------------- analytics failure
\* The send-email job of c has returned or thrown for good.
WorkerOver(c) == tk[c].pc = "finished"

\* C36: on the queue a failure to record the analytics event leaves the
\* pipeline state as it would be without it: the job of the recipient still
\* goes through its completion check (it does not end on the failure), and when
\* the send is over every successful send of a queued batch is counted in
\* progress.sent.
C36_AnalyticsFailureHarmless ==
  /\ \A c \in DOMAIN tk : WorkerOver(c) => ~tk[c].thrown
  /\ Quiescent =>
       \A b \in DOMAIN jobs : WasQueued(b) => jobs[b].sent >= CountOutcome(b, "sent")

\* C1: each batch makes the transition to 'completed' exactly once: never a
\* second time, each time with sent + failed = total on the job, and once the
\* first pass over the batch is over the transition has happened.
C1_CompletedExactlyOnce ==
  \A b \in DOMAIN jobs :
    /\ hist[b].transitions <= 1
    /\ hist[b].accounted
    /\ Settled(b) => hist[b].transitions = 1

\* C2: the counters of a batch are added to the campaign stats at most once.
C2_StatsRolledOnce ==
  \A b \in DOMAIN jobs : hist[b].rolls <= 1

\* C3: progress.sent + progress.failed <= progress.total on every job.
C3_ProgressWithinTotal ==
  \A b \in DOMAIN jobs : jobs[b].sent + jobs[b].failed <= jobs[b].total

\* ---------------------------------------------------- fallback
\* C5: a batch whose enqueueing failed is run by the synchronous executor: once
\* processBatches has pushed its entry, every recipient of the batch has been
\* attempted, sent + failed = total = number of recipients, the status is
\* 'completed', and no send-batch job exists for it.
C5_FallbackCompletesBatch ==
  \A k \in DOMAIN route.results :
    ~route.results[k].queued =>
      LET b == route.results[k].jobId
      IN  /\ \A c \in BatchContacts(b) : outcome[c] # "none"
          /\ jobs[b].sent + jobs[b].failed = jobs[b].total
          /\ jobs[b].total = Len(jobs[b].contacts)
          /\ jobs[b].status = "completed"
          /\ hd[b].pc = "none"

\* A batch of two that fell back, with one recipient sent and one failed.
C5_Witness ==
  \E b \in DOMAIN jobs :
    /\ FellBack(b)
    /\ Len(jobs[b].contacts) = 2
    /\ CountOutcome(b, "sent") = 1 /\ CountOutcome(b, "failed") = 1
    /\ jobs[b].status = "completed"

\* C6: on either path the settled batch is a function of the provider outcomes
\* alone: status 'completed', sent = recipients whose send succeeded, failed =
\* recipients whose send failed (before any retry pass touches the batch).
C6_PathsConverge ==
  \A b \in DOMAIN jobs :
    (Settled(b) /\ ~hist[b].retried) =>
      /\ jobs[b].status = "completed"
      /\ jobs[b].sent = CountOutcome(b, "sent")
      /\ jobs[b].failed = CountOutcome(b, "failed")
      /\ jobs[b].sent + jobs[b].failed = jobs[b].total

\* ---------------------------------------------------- campaign completion
\* C7: while the campaign is 'completed' every batch of it is 'completed' or 'failed'.
C7_CampaignCompletedOnlyWhenAllTerminal ==
  campaign.status = "completed" =>
    \A b \in DOMAIN jobs : jobs[b].status \in {"completed", "failed"}

\* A completed campaign of two batches, one run by the queue and one by the fallback.
C7_Witness ==
  /\ campaign.status = "completed"
  /\ Len(jobs) = 2
  /\ \E b1, b2 \in DOMAIN jobs : WasQueued(b1) /\ FellBack(b2)

\* C8: with every provider call returning and every handler and worker that can
\* take a step eventually taking it, a triggered campaign (its batches created)
\* eventually has every batch 'completed' with sent + failed = total and is
\* itself 'completed', whatever the queue's availability, the progress-batching
\* setting and the recipients' outcomes.
C8_SendEndsCompleted == (jobs # << >>) ~> SendCompleted

====
